---------------------------- MODULE Spec2Model ----------------------------
(***************************************************************************)
(* BLS signatures over bn128 (src/src/bn128/mod.rs): hash-to-curve by      *)
(* try-and-increment, the compressed encodings of G1 and G2 points, and    *)
(* the five operations derive_public_key, sign, verify,                    *)
(* aggregate_public_keys and aggregate_signatures.                         *)
(*                                                                         *)
(* The curve arithmetic of the `bn` crate is not part of the repository.   *)
(* It is modelled on a curve of the same shape, scaled down so that every  *)
(* group element can be enumerated:                                        *)
(*   G1: y^2 = x^3 + 3 over F_7, of prime order 13, generator (1, 2);      *)
(*   G2: the order-13 subgroup of y^2 = x^3 + (1 + i) over F_7[i]/(i^2+1), *)
(*       a curve of order 39 (odd cofactor, as for bn128's twist);         *)
(*   Gt: the integers modulo 13 written additively, the pairing of a*G1    *)
(*       and b*G2 being a*b.                                               *)
(* A u128 limb of arith::U256 / arith::U512 is scaled to one byte, so a    *)
(* U256 is 2 bytes and a U512 is 4 bytes: a compressed G1 point has 1 + 2  *)
(* bytes (33 in the source) and a compressed G2 point 1 + 4 (65).          *)
(***************************************************************************)
EXTENDS Integers, Sequences, FiniteSets, TLC

VARIABLES
    oracle,     \* the hash function in force: see calculate_sha256
    pc,         \* position of the signing session (Spec)
    sks,        \* the session's two secret keys
    msg,        \* the message both signers sign
    pks,        \* results of derive_public_key for each signer
    sigs,       \* results of sign for each signer
    aggPk,      \* result of aggregate_public_keys
    aggSig,     \* result of aggregate_signatures
    ver,        \* the last verify call: what it was given, what it returned
    call,       \* the last library call (SpecPure, SpecHash)
    prev,       \* the call before it, when `call` consumed its output
    loop        \* the find_map loop of a hash_to_try_and_increment call (SpecLoop)

vars == <<oracle, pc, sks, msg, pks, sigs, aggPk, aggSig, ver, call, prev, loop>>

---------------------------------------------------------------------------
(* Program constants *)

\* u8: the values of one byte.
ByteBase == 256
\* Bytes of a serialized U256 (`[0u8; 32]`, `secret_key[0..32]`), one per limb.
U256Bytes == 2
\* Limbs of a U512 (`(0..4)`), serialized most significant first.
U512Limbs == 4
\* End of the counter range `0..255` of hash_to_try_and_increment.
CtrEnd == 255
\* Fq::modulus(), the order of Fr, and the curve coefficient b of G1.
Modulus == 7
GroupOrder == 13
CurveB == 3

(* Bounds of the model *)

\* Replacement byte values 0..MaxByte (and 255) are tried when one byte of a
\* key or a signature is altered, and as tag bytes of decoder inputs.
MaxByte == 12
\* Combined integers 0..MaxV are given to the G2 decoder, x values 0..MaxX
\* to the G1 decoder.
MaxV == 52
MaxX == 9
\* Longest list given to the aggregation operations.
MaxList == 3

Byte == 0 .. (ByteBase - 1)

---------------------------------------------------------------------------
(* Results: Ok(v) and Err(e).  An error is a record of the kind the caller *)
(* sees and the bn error it was converted from.                            *)

NoError == [kind |-> "", cause |-> ""]
Ok(v) == [ok |-> TRUE, val |-> v, err |-> NoError]
Fail(e, dummy) == [ok |-> FALSE, val |-> dummy, err |-> e]

\* Error::Unknown, Error::HashToPointError, Error::VerificationFailed.
Unknown == [kind |-> "Unknown", cause |-> ""]
HashToPointError == [kind |-> "HashToPointError", cause |-> ""]
VerificationFailed == [kind |-> "VerificationFailed", cause |-> ""]
\* `?` on a bn::CurveError / bn::FieldError (conversions of error.rs).
FromCurveError(e) == [kind |-> "DecodeError", cause |-> e]
FromFieldError(e) == [kind |-> "InvalidScalar", cause |-> e]
\* A Rust panic: the call does not return.
Panicked == [kind |-> "panic", cause |-> "range end index out of range"]

---------------------------------------------------------------------------
(* The bn crate: integers and fields *)

RECURSIVE BeValue(_)
\* The big-endian value of a byte string.
BeValue(bytes) ==
    IF bytes = <<>> THEN 0
    ELSE BeValue(SubSeq(bytes, 1, Len(bytes) - 1)) * ByteBase + bytes[Len(bytes)]

\* arith::U256::to_big_endian / the limbs of a U512, most significant first.
BeBytes(n, len) == [i \in 1 .. len |-> (n \div (ByteBase ^ (len - i))) % ByteBase]

\* arith::U256::from_slice: exactly U256Bytes bytes.
U256FromSlice(bytes) ==
    IF Len(bytes) /= U256Bytes THEN Fail("InvalidLength", 0) ELSE Ok(BeValue(bytes))

\* Fq::from_slice: a U256 below the modulus.
FqFromSlice(bytes) ==
    LET u == U256FromSlice(bytes)
    IN  IF ~u.ok THEN Fail("InvalidSliceLength", 0)
        ELSE IF u.val >= Modulus THEN Fail("NotMember", 0)
        ELSE Ok(u.val)

\* Fr::from_slice: a U256, taken modulo the group order (Fr::new_mul_factor).
FrFromSlice(bytes) ==
    LET u == U256FromSlice(bytes)
    IN  IF ~u.ok THEN Fail("InvalidSliceLength", 0) ELSE Ok(u.val % GroupOrder)

\* Arithmetic of Fq.
FqNeg(a) == (Modulus - a) % Modulus
FqInv(a) == CHOOSE b \in 0 .. (Modulus - 1) : (a * b) % Modulus = 1
FqHasSqrt(a) == \E y \in 0 .. (Modulus - 1) : (y * y) % Modulus = a
FqSqrt(a) == CHOOSE y \in 0 .. (Modulus - 1) : (y * y) % Modulus = a

\* Fq2 = Fq[i] / (i^2 + 1): <<real, imaginary>>.
Fq2 == (0 .. (Modulus - 1)) \X (0 .. (Modulus - 1))
Fq2Zero == <<0, 0>>
Fq2Add(a, b) == <<(a[1] + b[1]) % Modulus, (a[2] + b[2]) % Modulus>>
Fq2Neg(a) == <<FqNeg(a[1]), FqNeg(a[2])>>
Fq2Sub(a, b) == Fq2Add(a, Fq2Neg(b))
Fq2Mul(a, b) ==
    <<(a[1] * b[1] + (Modulus * Modulus - a[2] * b[2])) % Modulus,
      (a[1] * b[2] + a[2] * b[1]) % Modulus>>
Fq2Scale(k, a) == <<(k * a[1]) % Modulus, (k * a[2]) % Modulus>>
Fq2Inv(a) ==
    LET n == FqInv((a[1] * a[1] + a[2] * a[2]) % Modulus)
    IN  <<(a[1] * n) % Modulus, (FqNeg(a[2]) * n) % Modulus>>
Fq2HasSqrt(a) == \E y \in Fq2 : Fq2Mul(y, y) = a
Fq2Sqrt(a) == CHOOSE y \in Fq2 : Fq2Mul(y, y) = a

\* arith::U512::new(c1, c0, modulus) = c1 * modulus + c0.
U512New(c1, c0, modulus) == c1 * modulus + c0

\* Fq2::to_u512.
Fq2ToU512(a) == U512New(a[2], a[1], Modulus)

RECURSIVE DivStep(_, _, _, _)
\* Long division of a big-endian byte string by m: the quotient's bytes and
\* the remainder.
DivStep(bytes, m, rem, quot) ==
    IF bytes = <<>> THEN [quot |-> quot, rem |-> rem]
    ELSE LET cur == rem * ByteBase + Head(bytes)
         IN  DivStep(Tail(bytes), m, cur % m, Append(quot, cur \div m))

\* arith::U512::divrem: the quotient as a U256 (None when it does not fit)
\* and the remainder.
U512DivRem(bytes, m) ==
    LET d == DivStep(bytes, m, 0, <<>>)
        high == SubSeq(d.quot, 1, U512Limbs - U256Bytes)
        low == SubSeq(d.quot, U512Limbs - U256Bytes + 1, U512Limbs)
    IN  [fits |-> \A i \in 1 .. Len(high) : high[i] = 0, quot |-> BeValue(low), rem |-> d.rem]

\* Fq2::from_slice: a U512 divided by the modulus; the remainder is the real
\* part, the quotient (which must be a member of Fq) the imaginary part.
Fq2FromSlice(bytes) ==
    IF Len(bytes) /= U512Limbs THEN Fail("InvalidSliceLength", Fq2Zero)
    ELSE LET d == U512DivRem(bytes, Modulus)
         IN  IF ~d.fits \/ d.quot >= Modulus THEN Fail("NotMember", Fq2Zero)
             ELSE Ok(<<d.rem, d.quot>>)

---------------------------------------------------------------------------
(* The bn crate: the groups G1 and G2 and the pairing *)

\* A point is the identity (no affine form) or an affine pair.
G1Zero == [inf |-> TRUE, x |-> 0, y |-> 0]
G1At(x, y) == [inf |-> FALSE, x |-> x, y |-> y]
G1One == G1At(1, 2)
G1OnCurve(x, y) == (y * y) % Modulus = (x * x * x + CurveB) % Modulus

G1Neg(p) == IF p.inf THEN p ELSE G1At(p.x, FqNeg(p.y))

G1Add(p, q) ==
    IF p.inf THEN q
    ELSE IF q.inf THEN p
    ELSE IF p.x = q.x /\ (p.y + q.y) % Modulus = 0 THEN G1Zero
    ELSE LET l == IF p.x = q.x
                  THEN (3 * p.x * p.x * FqInv((2 * p.y) % Modulus)) % Modulus
                  ELSE ((q.y + FqNeg(p.y)) * FqInv((q.x + FqNeg(p.x)) % Modulus)) % Modulus
             x == (l * l + FqNeg(p.x) + FqNeg(q.x)) % Modulus
             y == (l * (p.x + FqNeg(x)) + FqNeg(p.y)) % Modulus
         IN  G1At(x, y)

RECURSIVE G1Multiples(_)
\* <<0*G, 1*G, ..., n*G>> for the generator G of G1.
G1Multiples(n) ==
    IF n = 0 THEN <<G1Zero>>
    ELSE LET t == G1Multiples(n - 1) IN Append(t, G1Add(t[n], G1One))

G1Table == G1Multiples(GroupOrder - 1)
G1 == {G1Table[k + 1] : k \in 0 .. (GroupOrder - 1)}
G1Log(p) == CHOOSE k \in 0 .. (GroupOrder - 1) : G1Table[k + 1] = p
\* point * scalar.
G1Mul(p, s) == G1Table[((G1Log(p) * s) % GroupOrder) + 1]

G2B == <<1, 1>>
G2Zero == [inf |-> TRUE, x |-> Fq2Zero, y |-> Fq2Zero]
G2At(x, y) == [inf |-> FALSE, x |-> x, y |-> y]
G2One == G2At(<<1, 6>>, <<1, 3>>)
G2OnCurve(x, y) == Fq2Mul(y, y) = Fq2Add(Fq2Mul(x, Fq2Mul(x, x)), G2B)

G2Neg(p) == IF p.inf THEN p ELSE G2At(p.x, Fq2Neg(p.y))

G2Add(p, q) ==
    IF p.inf THEN q
    ELSE IF q.inf THEN p
    ELSE IF p.x = q.x /\ Fq2Add(p.y, q.y) = Fq2Zero THEN G2Zero
    ELSE LET l == IF p.x = q.x
                  THEN Fq2Mul(Fq2Scale(3, Fq2Mul(p.x, p.x)), Fq2Inv(Fq2Scale(2, p.y)))
                  ELSE Fq2Mul(Fq2Sub(q.y, p.y), Fq2Inv(Fq2Sub(q.x, p.x)))
             x == Fq2Sub(Fq2Sub(Fq2Mul(l, l), p.x), q.x)
             y == Fq2Sub(Fq2Mul(l, Fq2Sub(p.x, x)), p.y)
         IN  G2At(x, y)

RECURSIVE G2Multiples(_)
G2Multiples(n) ==
    IF n = 0 THEN <<G2Zero>>
    ELSE LET t == G2Multiples(n - 1) IN Append(t, G2Add(t[n], G2One))

G2Table == G2Multiples(GroupOrder - 1)
G2 == {G2Table[k + 1] : k \in 0 .. (GroupOrder - 1)}
G2Log(p) == CHOOSE k \in 0 .. (GroupOrder - 1) : G2Table[k + 1] = p
G2Mul(p, s) == G2Table[((G2Log(p) * s) % GroupOrder) + 1]

\* AffineG1::from_jacobian / AffineG2::from_jacobian: None for the identity.
HasAffine(p) == ~p.inf

\* pairing_batch: the product, in Gt, of the pairings of the pairs.  Gt is
\* written additively, Gt::one() being 0.
GtOne == 0
Pairing(p, q) == (G1Log(p) * G2Log(q)) % GroupOrder
RECURSIVE pairing_batch(_)
pairing_batch(vals) ==
    IF vals = <<>> THEN GtOne
    ELSE (Pairing(vals[1][1], vals[1][2]) + pairing_batch(Tail(vals))) % GroupOrder

\* G1::from_compressed, once y with y^2 = x^3 + b is known: tag 2 takes the
\* even one of y and -y, tag 3 the odd one; any other tag is no encoding.
G1FromXY(sign, x, y) ==
    IF sign = 2 THEN Ok(G1At(x, IF y % 2 = 1 THEN FqNeg(y) ELSE y))
    ELSE IF sign = 3 THEN Ok(G1At(x, IF y % 2 = 1 THEN y ELSE FqNeg(y)))
    ELSE Fail("InvalidEncoding", G1Zero)

\* G1::from_compressed, once x is parsed.
G1FromX(sign, fq) ==
    IF ~fq.ok THEN Fail(fq.err, G1Zero)
    ELSE IF ~FqHasSqrt((fq.val * fq.val * fq.val + CurveB) % Modulus)
    THEN Fail("NotMember", G1Zero)
    ELSE G1FromXY(sign, fq.val, FqSqrt((fq.val * fq.val * fq.val + CurveB) % Modulus))

\* G1::from_compressed: a tag, then x.
G1FromCompressed(bytes) ==
    IF Len(bytes) /= 1 + U256Bytes THEN Fail("InvalidEncoding", G1Zero)
    ELSE G1FromX(bytes[1], FqFromSlice(Tail(bytes)))

\* `AffineG2::new(x, y).map_err(|_| CurveError::NotMember)`: the point must
\* lie in the subgroup.
AffineG2New(p) == IF p \notin G2 THEN Fail("NotMember", G2Zero) ELSE Ok(p)

\* G2::from_compressed, once y with y^2 = x^3 + b' is known: tag 10 takes
\* the smaller of y and -y as U512, tag 11 the larger.
G2FromXY(sign, x, y) ==
    IF sign = 10
    THEN AffineG2New(G2At(x, IF Fq2ToU512(y) > Fq2ToU512(Fq2Neg(y)) THEN Fq2Neg(y) ELSE y))
    ELSE IF sign = 11
    THEN AffineG2New(G2At(x, IF Fq2ToU512(y) > Fq2ToU512(Fq2Neg(y)) THEN y ELSE Fq2Neg(y)))
    ELSE Fail("InvalidEncoding", G2Zero)

\* x^3 + b' on the twist.
G2Rhs(x) == Fq2Add(Fq2Mul(x, Fq2Mul(x, x)), G2B)

\* G2::from_compressed, once x is parsed.
G2FromX(sign, fq2) ==
    IF ~fq2.ok THEN Fail(fq2.err, G2Zero)
    ELSE IF ~Fq2HasSqrt(G2Rhs(fq2.val)) THEN Fail("NotMember", G2Zero)
    ELSE G2FromXY(sign, fq2.val, Fq2Sqrt(G2Rhs(fq2.val)))

\* G2::from_compressed: a tag, then the U512 of x.
G2FromCompressed(bytes) ==
    IF Len(bytes) /= 1 + U512Limbs THEN Fail("InvalidEncoding", G2Zero)
    ELSE G2FromX(bytes[1], Fq2FromSlice(Tail(bytes)))

---------------------------------------------------------------------------
(* Bn128 (src/src/bn128/mod.rs) *)

\* Number of classes of buffers the hash function tells apart by more than
\* the counter byte.
OracleKeys == 2

RECURSIVE SumBytes(_)
SumBytes(bytes) == IF bytes = <<>> THEN 0 ELSE Head(bytes) + SumBytes(Tail(bytes))

\* calculate_sha256: SHA-256 is a fixed function nothing in the code can
\* see into.  It is modelled as one function of the whole buffer out of a
\* family: `oracle` gives, for each class of buffers that agree up to the
\* trailing byte, the trailing bytes at which the digest is the x-coordinate
\* of a point of G1; at every other trailing byte the digest is x = 0 (not
\* on the curve) or a value that is no member of Fq.
calculate_sha256(bytes) ==
    LET n == Len(bytes)
        ctr == bytes[n]
        key == (SumBytes(SubSeq(bytes, 1, n - 1)) + n) % OracleKeys
    IN  IF ctr \in oracle[key] THEN BeBytes(1 + ((key + ctr) % (Modulus - 1)), U256Bytes)
        ELSE IF ctr % 2 = 0 THEN BeBytes(0, U256Bytes)
        ELSE BeBytes(ByteBase + ctr, U256Bytes)

\* arbitrary_string_to_point: the data as an x-coordinate with even y.
arbitrary_string_to_point(data) ==
    LET v == <<2>> \o data
        point == G1FromCompressed(v)
    IN  IF ~point.ok THEN Fail(FromCurveError(point.err), G1Zero) ELSE Ok(point.val)

\* One turn of the closure given to find_map: the counter is written into
\* the trailing byte and the hash of the buffer is tried as a point.
Attempt(v, position, ctr) ==
    LET w == [v EXCEPT ![position] = ctr]
        attempted_hash == calculate_sha256(w)
    IN  arbitrary_string_to_point(attempted_hash)

RECURSIVE find_map(_, _, _, _)
\* `c.find_map(|ctr| ...)` over the counters lo .. hi - 1: the point of the
\* first counter, in increasing order, whose attempt gives one, and no
\* attempt after it; HashToPointError (`point.ok_or`) when no counter does.
\* The range is walked by halves, which keeps the evaluation shallow.
find_map(v, position, lo, hi) ==
    IF lo >= hi THEN Fail(HashToPointError, G1Zero)
    ELSE IF hi = lo + 1 THEN
        LET point == Attempt(v, position, lo)
        IN  IF point.ok THEN point ELSE Fail(HashToPointError, G1Zero)
    ELSE LET mid == (lo + hi) \div 2
             first == find_map(v, position, lo, mid)
         IN  IF first.ok THEN first ELSE find_map(v, position, mid, hi)

\* A hash_to_try_and_increment that mixes the public key into the buffer
\* (the line the code leaves commented out): C6 does not hold of it.
HashBufferWithKey(public_key, message) == <<255, 1>> \o public_key \o message \o <<0>>

\* The buffer hash_to_try_and_increment starts from.
HashBuffer(public_key, message) == <<255, 1>> \o message \o <<0>>

hash_to_try_and_increment(public_key, message) ==
    LET v == HashBuffer(public_key, message)
        position == Len(v)
    IN  find_map(v, position, 0, CtrEnd)

\* A to_compressed_g1 with the parity tags exchanged: C4 does not hold of it.
to_compressed_g1_swapped(point) ==
    IF ~HasAffine(point) THEN Fail(Unknown, <<>>)
    ELSE Ok(<<IF point.y % 2 = 1 THEN 2 ELSE 3>> \o BeBytes(point.x, U256Bytes))

\* A to_compressed_g1 that encodes the identity as the point of x = 0
\* instead of failing: C9 does not hold of it.
to_compressed_g1_identity(point) ==
    IF ~HasAffine(point) THEN Ok(<<2>> \o BeBytes(0, U256Bytes))
    ELSE Ok(<<IF point.y % 2 = 1 THEN 3 ELSE 2>> \o BeBytes(point.x, U256Bytes))

to_compressed_g1(point) ==
    IF ~HasAffine(point) THEN Fail(Unknown, <<>>)
    ELSE LET x == point.x
             y == point.y
             parity == y % 2 = 1
             s == BeBytes(x, U256Bytes)
         IN  Ok(<<IF parity THEN 3 ELSE 2>> \o s)

\* PrivateKey::from_sk and PrivateKey::to_public.
to_public(sk) == Ok([pk |-> G2Mul(G2One, sk)])

\* PublicKey::to_u512.
to_u512(point) == U512New(point[2], point[1], Modulus)

\* PublicKey::from_compressed.
PublicKey_from_compressed(bytes) ==
    LET uncompressed == G2FromCompressed(bytes)
    IN  IF ~uncompressed.ok THEN Fail(FromCurveError(uncompressed.err), [pk |-> G2Zero])
        ELSE Ok([pk |-> uncompressed.val])

\* The tag of PublicKey::to_compressed.
SignTag(y) == IF to_u512(y) > to_u512(Fq2Neg(y)) THEN 11 ELSE 10

\* The limbs written least significant first: C5 does not hold of it.
LimbsToBufLittleEndian(compressed) ==
    [i \in 1 .. U512Limbs |-> (compressed \div (ByteBase ^ (i - 1))) % ByteBase]

\* The limbs of a U512 written most significant first
\* (`(0..4).rev().zip(...)`, one byte for each limb).
LimbsToBuf(compressed) ==
    [i \in 1 .. U512Limbs |-> (compressed \div (ByteBase ^ (U512Limbs - i))) % ByteBase]

\* PublicKey::to_compressed.
PublicKey_to_compressed(self) ==
    IF ~HasAffine(self.pk) THEN Fail(Unknown, <<>>)
    ELSE LET x_real == self.pk.x[1]
             x_imaginary == self.pk.x[2]
             sign == SignTag(self.pk.y)
             compressed == U512New(x_imaginary, x_real, Modulus)
         IN  Ok(<<sign>> \o LimbsToBuf(compressed))

\* `&secret_key[0..32]`: panics on a shorter slice.
KeySlice(secret_key) == SubSeq(secret_key, 1, U256Bytes)

derive_public_key(secret_key) ==
    IF Len(secret_key) < U256Bytes THEN Fail(Panicked, <<>>)
    ELSE LET scalar == FrFromSlice(KeySlice(secret_key))
         IN  IF ~scalar.ok THEN Fail(FromFieldError(scalar.err), <<>>)
             ELSE PublicKey_to_compressed(to_public(scalar.val).val)

\* The scalar sign multiplies by: `Fr::from_slice(&secret_key)`.
SignScalar(secret_key) == FrFromSlice(secret_key)

sign(secret_key, message) ==
    LET public_key == derive_public_key(secret_key)
    IN  IF ~public_key.ok THEN public_key
        ELSE LET hash_point == hash_to_try_and_increment(public_key.val, message)
                 sk == SignScalar(secret_key)
             IN  IF ~hash_point.ok THEN Fail(hash_point.err, <<>>)
                 ELSE IF ~sk.ok THEN Fail(FromFieldError(sk.err), <<>>)
                 ELSE to_compressed_g1(G1Mul(hash_point.val, sk.val))

\* The verdict of verify on the product of the pairings.
Verdict(mul) == IF mul = GtOne THEN Ok(<<>>) ELSE Fail(VerificationFailed, <<>>)

\* A second pairing on the generator itself: C3 does not hold of it.
G2OneNotNegated == G2One

\* The G2 point of the second pairing: `-G2::one()`.
SecondPairingG2 == G2Neg(G2One)

verify(public_key, signature, message) ==
    LET hash_point == hash_to_try_and_increment(public_key, message)
        public_key_point == G2FromCompressed(public_key)
        signature_point == G1FromCompressed(signature)
    IN  IF ~hash_point.ok THEN Fail(hash_point.err, <<>>)
        ELSE IF ~public_key_point.ok THEN Fail(FromCurveError(public_key_point.err), <<>>)
        ELSE IF ~signature_point.ok THEN Fail(FromCurveError(signature_point.err), <<>>)
        ELSE Verdict(pairing_batch(<< <<hash_point.val, public_key_point.val>>,
                                      <<signature_point.val, SecondPairingG2>> >>))

RECURSIVE try_fold_g2(_, _)
\* `public_keys.iter().try_fold(acc, ...)`: stops at the first entry that
\* does not decode.
try_fold_g2(acc, public_keys) ==
    IF public_keys = <<>> THEN Ok(acc)
    ELSE LET public_key == PublicKey_from_compressed(Head(public_keys))
         IN  IF ~public_key.ok THEN Fail(public_key.err, G2Zero)
             ELSE try_fold_g2(G2Add(acc, public_key.val.pk), Tail(public_keys))

aggregate_public_keys(public_keys) ==
    LET agg_public_key == try_fold_g2(G2Zero, public_keys)
    IN  IF ~agg_public_key.ok THEN Fail(agg_public_key.err, <<>>)
        ELSE PublicKey_to_compressed([pk |-> agg_public_key.val])

RECURSIVE try_fold_g1_skipping(_, _)
\* A fold that skips the entries that do not decode: C10 does not hold of it.
try_fold_g1_skipping(acc, signatures) ==
    IF signatures = <<>> THEN Ok(acc)
    ELSE LET signature == G1FromCompressed(Head(signatures))
         IN  IF ~signature.ok THEN try_fold_g1_skipping(acc, Tail(signatures))
             ELSE try_fold_g1_skipping(G1Add(acc, signature.val), Tail(signatures))

RECURSIVE try_fold_g1(_, _)
\* `signatures.iter().try_fold(G1::zero(), ...)`.
try_fold_g1(acc, signatures) ==
    IF signatures = <<>> THEN Ok(acc)
    ELSE LET signature == G1FromCompressed(Head(signatures))
         IN  IF ~signature.ok THEN Fail(FromCurveError(signature.err), G1Zero)
             ELSE try_fold_g1(G1Add(acc, signature.val), Tail(signatures))

\* An aggregate_signatures that folds from the generator instead of the
\* identity: C2 does not hold of it.
aggregate_signatures_from_one(signatures) ==
    LET agg_signatures == try_fold_g1(G1One, signatures)
    IN  IF ~agg_signatures.ok THEN Fail(agg_signatures.err, <<>>)
        ELSE to_compressed_g1(agg_signatures.val)

aggregate_signatures(signatures) ==
    LET agg_signatures == try_fold_g1(G1Zero, signatures)
    IN  IF ~agg_signatures.ok THEN Fail(agg_signatures.err, <<>>)
        ELSE to_compressed_g1(agg_signatures.val)

---------------------------------------------------------------------------
(* Inputs *)

\* Secret keys: the scalars 1, 2 and 12 = -1, the scalar 0, a value above
\* the group order (14 = 1 mod 13), a key shorter than a U256 and a key
\* longer than one.
SecretKeys ==
    { <<0, 1>>, <<0, 2>>, <<0, 12>>, <<0, 0>>, <<0, 14>>, <<5>>, <<0, 3, 9>> }

Messages == { <<>>, <<8>>, <<7, 7>> }

\* Sets of counters at which a class of buffers hashes to a point.
CounterSets == { {}, {0}, {2, 7}, {CtrEnd - 1}, {CtrEnd} }

OracleOf(S, T) == [k \in 0 .. (OracleKeys - 1) |-> IF k % 2 = 0 THEN S ELSE T]

\* The hash functions of the model.
Oracles == { OracleOf(S, T) : S, T \in CounterSets }

\* The hash functions of a signing session: every message hashes to a point
\* within the first counters.
SessionOracles == { OracleOf({0}, {2, 7}), OracleOf({2, 7}, {0}) }

\* Byte values an altered byte takes.
AlterBytes == (0 .. MaxByte) \cup {ByteBase - 1}

NotCalled == [ok |-> FALSE, val |-> <<>>, err |-> [kind |-> "not called", cause |-> ""]]
NoVerify ==
    [who |-> 0, field |-> "none", public_key |-> <<>>, signature |-> <<>>, ret |-> NotCalled]
NoCall == [op |-> "none", arg |-> <<>>, ret |-> NotCalled]
\* No call of hash_to_try_and_increment is running: `c` is the next value of
\* the range, `v` the buffer, `attempted_hash` the last hash of it and
\* `attempts` the hashes computed so far.
NoLoop == [at |-> "idle", c |-> 0, v |-> <<>>, attempted_hash |-> <<>>, attempts |-> 0]

---------------------------------------------------------------------------
(* Spec: a signing session of two signers, after                           *)
(* test_verify_aggregated_signatures_1: each signer derives its key and    *)
(* signs the message, the keys and the signatures the calls returned are   *)
(* aggregated, and one signature is verified, as returned or with one byte *)
(* of the key or of the signature altered.                                 *)

Init ==
    /\ oracle \in SessionOracles
    /\ pc = 1
    /\ sks \in SecretKeys \X SecretKeys
    /\ msg \in Messages
    /\ pks = <<NotCalled, NotCalled>>
    /\ sigs = <<NotCalled, NotCalled>>
    /\ aggPk = NotCalled
    /\ aggSig = NotCalled
    /\ ver = NoVerify
    /\ call = NoCall
    /\ prev = NoCall
    /\ loop = NoLoop

\* The signer whose turn it is at pc 1..4.
Signer == (pc + 1) \div 2

\* A panic ends the session.
After(ret, next) == IF ret.err = Panicked THEN 0 ELSE next

DerivePublicKey ==
    /\ pc \in {1, 3}
    /\ LET ret == derive_public_key(sks[Signer])
       IN  /\ pks' = [pks EXCEPT ![Signer] = ret]
           /\ pc' = After(ret, pc + 1)
    /\ UNCHANGED <<oracle, sks, msg, sigs, aggPk, aggSig, ver, call, prev, loop>>

Sign ==
    /\ pc \in {2, 4}
    /\ LET ret == sign(sks[Signer], msg)
       IN  /\ sigs' = [sigs EXCEPT ![Signer] = ret]
           /\ pc' = After(ret, pc + 1)
    /\ UNCHANGED <<oracle, sks, msg, pks, aggPk, aggSig, ver, call, prev, loop>>

\* The values of the calls that returned Ok.
Returned(rets) == [i \in 1 .. Len(SelectSeq(rets, LAMBDA r : r.ok)) |->
                      SelectSeq(rets, LAMBDA r : r.ok)[i].val]

AggregatePublicKeys ==
    /\ pc = 5
    /\ aggPk' = aggregate_public_keys(Returned(pks))
    /\ pc' = 6
    /\ UNCHANGED <<oracle, sks, msg, pks, sigs, aggSig, ver, call, prev, loop>>

AggregateSignatures ==
    /\ pc = 6
    /\ aggSig' = aggregate_signatures(Returned(sigs))
    /\ pc' = 7
    /\ UNCHANGED <<oracle, sks, msg, pks, sigs, aggPk, ver, call, prev, loop>>

\* verify on what signer `who` holds (3: the aggregates).
KeyOf(who) == IF who = 3 THEN aggPk ELSE pks[who]
SigOf(who) == IF who = 3 THEN aggSig ELSE sigs[who]

Verify ==
    /\ pc = 7
    /\ \E who \in 1 .. 3 :
          /\ KeyOf(who).ok /\ SigOf(who).ok
          /\ ver' = [who |-> who, field |-> "none",
                     public_key |-> KeyOf(who).val, signature |-> SigOf(who).val,
                     ret |-> verify(KeyOf(who).val, SigOf(who).val, msg)]
    /\ pc' = 8
    /\ UNCHANGED <<oracle, sks, msg, pks, sigs, aggPk, aggSig, call, prev, loop>>

\* verify on signer 1's key and signature with exactly one byte altered.
VerifyAltered ==
    /\ pc = 7
    /\ pks[1].ok /\ sigs[1].ok
    /\ \E field \in {"public_key", "signature"} :
          LET good == IF field = "public_key" THEN pks[1].val ELSE sigs[1].val
          IN  \E i \in 1 .. Len(good) : \E b \in AlterBytes \ {good[i]} :
                 LET bad == [good EXCEPT ![i] = b]
                     pk == IF field = "public_key" THEN bad ELSE pks[1].val
                     sig == IF field = "signature" THEN bad ELSE sigs[1].val
                 IN  ver' = [who |-> 1, field |-> field, public_key |-> pk,
                             signature |-> sig, ret |-> verify(pk, sig, msg)]
    /\ pc' = 8
    /\ UNCHANGED <<oracle, sks, msg, pks, sigs, aggPk, aggSig, call, prev, loop>>

Next ==
    \/ DerivePublicKey
    \/ Sign
    \/ AggregatePublicKeys
    \/ AggregateSignatures
    \/ Verify
    \/ VerifyAltered

Spec == Init /\ [][Next]_vars

---------------------------------------------------------------------------
(* SpecPure: one call of a codec or of an aggregation operation on an      *)
(* input of the sets below, followed, for the codecs, by the inverse       *)
(* operation on what the call returned.                                    *)

\* `G1::from_compressed(&signature)?`.
g1_from_compressed(bytes) ==
    LET point == G1FromCompressed(bytes)
    IN  IF ~point.ok THEN Fail(FromCurveError(point.err), G1Zero) ELSE Ok(point.val)

\* Byte strings given to the G1 decoder: every tag with every small x, and
\* strings of other lengths and with a high byte set.
G1Inputs ==
    { <<t>> \o BeBytes(x, U256Bytes) : t \in AlterBytes, x \in 0 .. MaxX }
    \cup { <<>>, <<2>>, <<2, 1>>, <<2, 0, 1, 0>>, <<2, 1, 1>>, <<3, ByteBase - 1, 2>> }

\* Byte strings given to the G2 decoder.
G2Inputs ==
    { <<t>> \o BeBytes(v, U512Limbs) : t \in AlterBytes, v \in 0 .. MaxV }
    \cup { <<>>, <<10>>, <<10, 0, 0, 43>>, <<10, 0, 0, 0, 43, 0>>,
           <<10, 0, 0, 1, 43>>, <<11, 0, 1, 0, 13>>, <<10, 1, 0, 0, 43>>,
           <<11, ByteBase - 1, ByteBase - 1, ByteBase - 1, ByteBase - 1>> }

\* Entries of the lists given to aggregate_signatures: the encodings of G,
\* 2G and -G, and malformed ones (x not on the curve, a tag that is none, a
\* short string, x that is no member of Fq).
SigEntries ==
    { <<2, 0, 1>>, <<3, 0, 6>>, <<3, 0, 1>>, <<2, 0, 0>>, <<4, 0, 1>>, <<2, 1>>, <<2, 0, 9>> }

\* Entries of the lists given to aggregate_public_keys: the encodings of G,
\* 2G and -G, and malformed ones (x not on the curve, a tag that is none, a
\* short string, a point outside the subgroup).
PkEntries ==
    { <<10, 0, 0, 0, 43>>, <<10, 0, 0, 0, 13>>, <<11, 0, 0, 0, 43>>, <<10, 0, 0, 0, 1>>,
      <<12, 0, 0, 0, 43>>, <<10, 0, 43>>, <<10, 0, 0, 0, 0>> }

RECURSIVE ListsOf(_, _)
\* The lists of at most n entries of S.
ListsOf(S, n) ==
    IF n = 0 THEN { <<>> }
    ELSE LET shorter == ListsOf(S, n - 1)
         IN  shorter \cup { Append(l, e) : l \in { k \in shorter : Len(k) = n - 1 }, e \in S }

InitPure ==
    /\ oracle = OracleOf({0}, {0})
    /\ pc = 0
    /\ sks = <<>>
    /\ msg = <<>>
    /\ pks = <<>>
    /\ sigs = <<>>
    /\ aggPk = NotCalled
    /\ aggSig = NotCalled
    /\ ver = NoVerify
    /\ call = NoCall
    /\ prev = NoCall
    /\ loop = NoLoop

session == <<oracle, pc, sks, msg, pks, sigs, aggPk, aggSig, ver, loop>>

Called(op, arg, ret) == [op |-> op, arg |-> arg, ret |-> ret]

\* A second call is made on what the first call, of operation `op`, returned.
Returned1(op) == call.op = op /\ prev = NoCall /\ call.ret.ok

ToCompressedG1 ==
    /\ call = NoCall
    /\ \E point \in G1 :
          call' = Called("to_compressed_g1", point, to_compressed_g1(point))
    /\ UNCHANGED <<prev, session>>

FromCompressedG1 ==
    /\ call = NoCall
    /\ \E bytes \in G1Inputs :
          call' = Called("G1::from_compressed", bytes, g1_from_compressed(bytes))
    /\ UNCHANGED <<prev, session>>

\* decode_g1 of what encode_g1 returned.
FromCompressedG1Back ==
    /\ Returned1("to_compressed_g1")
    /\ call' = Called("G1::from_compressed", call.ret.val, g1_from_compressed(call.ret.val))
    /\ prev' = call
    /\ UNCHANGED session

PublicKeyToCompressed ==
    /\ call = NoCall
    /\ \E point \in G2 :
          call' = Called("PublicKey::to_compressed", [pk |-> point],
                         PublicKey_to_compressed([pk |-> point]))
    /\ UNCHANGED <<prev, session>>

PublicKeyFromCompressed ==
    /\ call = NoCall
    /\ \E bytes \in G2Inputs :
          call' = Called("PublicKey::from_compressed", bytes, PublicKey_from_compressed(bytes))
    /\ UNCHANGED <<prev, session>>

\* decode_g2 of what encode_g2 returned.
PublicKeyFromCompressedBack ==
    /\ Returned1("PublicKey::to_compressed")
    /\ call' = Called("PublicKey::from_compressed", call.ret.val,
                      PublicKey_from_compressed(call.ret.val))
    /\ prev' = call
    /\ UNCHANGED session

\* test_compressed_public_key_1: a decoded key is encoded again.
PublicKeyToCompressedAgain ==
    /\ Returned1("PublicKey::from_compressed")
    /\ call' = Called("PublicKey::to_compressed", call.ret.val,
                      PublicKey_to_compressed(call.ret.val))
    /\ prev' = call
    /\ UNCHANGED session

AggregatePublicKeysOf ==
    /\ call = NoCall
    /\ \E public_keys \in ListsOf(PkEntries, MaxList) :
          call' = Called("aggregate_public_keys", public_keys,
                         aggregate_public_keys(public_keys))
    /\ UNCHANGED <<prev, session>>

AggregateSignaturesOf ==
    /\ call = NoCall
    /\ \E signatures \in ListsOf(SigEntries, MaxList) :
          call' = Called("aggregate_signatures", signatures,
                         aggregate_signatures(signatures))
    /\ UNCHANGED <<prev, session>>

NextPure ==
    \/ ToCompressedG1
    \/ FromCompressedG1
    \/ FromCompressedG1Back
    \/ PublicKeyToCompressed
    \/ PublicKeyFromCompressed
    \/ PublicKeyFromCompressedBack
    \/ PublicKeyToCompressedAgain
    \/ AggregatePublicKeysOf
    \/ AggregateSignaturesOf

SpecPure == InitPure /\ [][NextPure]_vars

---------------------------------------------------------------------------
(* SpecHash: hash_to_try_and_increment under every hash function of the    *)
(* model, called on a message and then once more on the same message.      *)

\* Public keys passed to hash_to_try_and_increment: none, G and -2G.
HashKeys == { <<>>, <<10, 0, 0, 0, 43>>, <<11, 0, 0, 0, 13>> }

InitHash ==
    /\ oracle \in Oracles
    /\ pc = 0
    /\ sks = <<>>
    /\ msg = <<>>
    /\ pks = <<>>
    /\ sigs = <<>>
    /\ aggPk = NotCalled
    /\ aggSig = NotCalled
    /\ ver = NoVerify
    /\ call = NoCall
    /\ prev = NoCall
    /\ loop = NoLoop

HashCall(public_key, message) ==
    [op |-> "hash_to_try_and_increment",
     arg |-> [public_key |-> public_key, msg |-> message],
     ret |-> hash_to_try_and_increment(public_key, message)]

HashToTryAndIncrement ==
    /\ call = NoCall
    /\ \E public_key \in HashKeys, message \in Messages :
          call' = HashCall(public_key, message)
    /\ UNCHANGED <<prev, session>>

HashAgain ==
    /\ call.op = "hash_to_try_and_increment"
    /\ prev = NoCall
    /\ \E public_key \in HashKeys : call' = HashCall(public_key, call.arg.msg)
    /\ prev' = call
    /\ UNCHANGED session

NextHash ==
    \/ HashToTryAndIncrement
    \/ HashAgain

SpecHash == InitHash /\ [][NextHash]_vars

---------------------------------------------------------------------------
(* SpecLoop: one call of hash_to_try_and_increment taken one turn of       *)
(* find_map at a time, under every hash function of the model.  The thread *)
(* that runs the loop keeps running: its turns are weakly fair.            *)

\* Hashes after which the model stops following a call; the range of the
\* code ends the loop long before.
MaxAttempts == 300

\* A range that starts over when it is exhausted: C11 does not hold of it.
NextCounterWrapping(ctr) == (ctr + 1) % CtrEnd

\* A range that steps by two: C12 does not hold of it.
NextCounterSkipping(ctr) == ctr + 2

\* `c.next()` of the range `0..255`: what the range gives after ctr.
NextCounter(ctr) == ctr + 1

\* What a call of hash_to_try_and_increment leaves alone.
caller == <<oracle, pc, sks, msg, pks, sigs, aggPk, aggSig, ver, prev>>

\* The hash functions of SpecLoop: a call reads one class of the hash
\* function only, so both classes are given the same set of counters.
LoopOracles == { OracleOf(S, S) : S \in CounterSets }

InitLoop ==
    /\ oracle \in LoopOracles
    /\ pc = 0
    /\ sks = <<>>
    /\ msg = <<>>
    /\ pks = <<>>
    /\ sigs = <<>>
    /\ aggPk = NotCalled
    /\ aggSig = NotCalled
    /\ ver = NoVerify
    /\ call = NoCall
    /\ prev = NoCall
    /\ loop = NoLoop

\* The call, up to find_map: the range, the buffer and the position.
LoopCall ==
    /\ loop.at = "idle"
    /\ \E public_key \in HashKeys, message \in Messages :
          /\ call' = [op |-> "hash_to_try_and_increment",
                      arg |-> [public_key |-> public_key, msg |-> message],
                      ret |-> NotCalled]
          /\ loop' = [at |-> "find_map", c |-> 0, v |-> HashBuffer(public_key, message),
                      attempted_hash |-> <<>>, attempts |-> 0]
    /\ UNCHANGED caller

\* find_map takes a counter from the range and the closure writes it into
\* the buffer and hashes the buffer.
LoopHash ==
    /\ loop.at = "find_map"
    /\ loop.c < CtrEnd
    /\ loop.attempts < MaxAttempts
    /\ loop' = [at |-> "closure",
                c |-> NextCounter(loop.c),
                v |-> [loop.v EXCEPT ![Len(loop.v)] = loop.c],
                attempted_hash |-> calculate_sha256([loop.v EXCEPT ![Len(loop.v)] = loop.c]),
                attempts |-> loop.attempts + 1]
    /\ UNCHANGED <<call, caller>>

\* The closure tries the hash as a point: find_map returns the first point
\* and `ok_or` passes it on.
LoopTry ==
    /\ loop.at = "closure"
    /\ arbitrary_string_to_point(loop.attempted_hash).ok
    /\ loop' = [loop EXCEPT !.at = "returned"]
    /\ call' = [call EXCEPT !.ret = Ok(arbitrary_string_to_point(loop.attempted_hash).val)]
    /\ UNCHANGED caller

\* The hash is no point: find_map goes on.
LoopTryNext ==
    /\ loop.at = "closure"
    /\ ~arbitrary_string_to_point(loop.attempted_hash).ok
    /\ loop' = [loop EXCEPT !.at = "find_map"]
    /\ UNCHANGED <<call, caller>>

\* The range is exhausted: find_map returns None and `ok_or` the error.
LoopExhausted ==
    /\ loop.at = "find_map"
    /\ loop.c >= CtrEnd
    /\ loop' = [loop EXCEPT !.at = "returned"]
    /\ call' = [call EXCEPT !.ret = Fail(HashToPointError, G1Zero)]
    /\ UNCHANGED caller

\* A turn of the thread that runs the call.
LoopTurn == LoopHash \/ LoopTry \/ LoopTryNext \/ LoopExhausted

NextLoop ==
    \/ LoopCall
    \/ LoopHash
    \/ LoopTry
    \/ LoopTryNext
    \/ LoopExhausted

SpecLoop == InitLoop /\ [][NextLoop]_vars /\ WF_vars(LoopTurn)

---------------------------------------------------------------------------
(* Claims *)

\* C1, as claimed: for every secret key derive_public_key accepts and every
\* message, sign returns a signature, and verify on the derived key, that
\* signature and the message returns Ok.
C1_VerifyOwnSignature ==
    \A i \in 1 .. 2 :
        pks[i].ok =>
            /\ (sigs[i] /= NotCalled => sigs[i].ok)
            /\ ((ver.who = i /\ ver.field = "none") => ver.ret.ok)

\* The scalar derive_public_key multiplies the generator by for signer i.
ScalarOf(i) == FrFromSlice(KeySlice(sks[i])).val

\* Both signers derived a key and signed, and the aggregations were called.
BothSigned == pc >= 7 /\ \A i \in 1 .. 2 : pks[i].ok /\ sigs[i].ok

\* The two scalars cancel: the aggregates are the identities of G2 and G1.
ScalarsCancel == (ScalarOf(1) + ScalarOf(2)) % GroupOrder = 0

C3_AlteredNeverVerifies ==
    ver.field /= "none" =>
        /\ ~ver.ret.ok
        /\ ver.ret.err.kind \in {"VerificationFailed", "DecodeError"}

\* A valid triple, one byte of the x of its signature altered, and verify
\* decoded the altered signature and rejected it.
C3_Witness ==
    /\ ver.field = "signature"
    /\ verify(pks[1].val, sigs[1].val, msg).ok
    /\ ver.signature[1] = sigs[1].val[1]
    /\ ver.ret = Fail(VerificationFailed, <<>>)

\* C4: to_compressed_g1 encodes every G1 point that has an affine form and
\* G1::from_compressed of the encoding returns the point; likewise
\* PublicKey::to_compressed and PublicKey::from_compressed on G2.
C4_RoundTrip ==
    /\ (call.op = "to_compressed_g1" /\ HasAffine(call.arg)) => call.ret.ok
    /\ (call.op = "G1::from_compressed" /\ prev.op = "to_compressed_g1") =>
           call.ret.ok /\ call.ret.val = prev.arg
    /\ (call.op = "PublicKey::to_compressed" /\ prev = NoCall /\ HasAffine(call.arg.pk)) =>
           call.ret.ok
    /\ (call.op = "PublicKey::from_compressed" /\ prev.op = "PublicKey::to_compressed") =>
           call.ret.ok /\ call.ret.val = prev.arg

\* A G2 point of the larger y was encoded and decoded.
C4_Witness ==
    /\ call.op = "PublicKey::from_compressed"
    /\ prev.op = "PublicKey::to_compressed"
    /\ prev.ret.val[1] = 11
    /\ call.ret.ok

\* C5: every byte string PublicKey::from_compressed accepts is what
\* PublicKey::to_compressed returns on the decoded key.
C5_Canonical ==
    (call.op = "PublicKey::to_compressed" /\ prev.op = "PublicKey::from_compressed") =>
        call.ret.ok /\ call.ret.val = prev.arg

\* An accepted string of tag 11 and of a combined x above one limb's worth
\* of the imaginary part was decoded and encoded again.
C5_Witness ==
    /\ call.op = "PublicKey::to_compressed"
    /\ prev.op = "PublicKey::from_compressed"
    /\ prev.arg[1] = 11
    /\ prev.arg[1 + U512Limbs] >= Modulus
    /\ call.ret.ok

C7_FailsOnlyWhenNoCounterDecodes ==
    (call.op = "hash_to_try_and_increment" /\ ~call.ret.ok) =>
        /\ call.ret.err = HashToPointError
        /\ \A ctr \in 0 .. CtrEnd :
               ~Attempt(HashBuffer(call.arg.public_key, call.arg.msg),
                        Len(HashBuffer(call.arg.public_key, call.arg.msg)), ctr).ok

\* C8, as claimed: derive_public_key on any byte string returns a compressed
\* public key or fails with InvalidScalar: it never panics and never returns
\* another outcome.
C8_KeyOrInvalidScalar ==
    \A i \in 1 .. 2 :
        pks[i] /= NotCalled =>
            \/ pks[i].ok /\ Len(pks[i].val) = 1 + U512Limbs
            \/ ~pks[i].ok /\ pks[i].err.kind = "InvalidScalar"

\* Every entry of the list decodes as a signature.
AllDecodeG1(signatures) ==
    \A i \in 1 .. Len(signatures) : G1FromCompressed(signatures[i]).ok

RECURSIVE SumOfG1Logs(_)
\* The sum of the discrete logarithms of the points the entries encode.
SumOfG1Logs(signatures) ==
    IF signatures = <<>> THEN 0
    ELSE (G1Log(G1FromCompressed(Head(signatures)).val)
          + SumOfG1Logs(Tail(signatures))) % GroupOrder

\* Every entry of the list decodes as a public key.
AllDecodeG2(public_keys) ==
    \A i \in 1 .. Len(public_keys) : G2FromCompressed(public_keys[i]).ok

RECURSIVE SumOfG2Logs(_)
SumOfG2Logs(public_keys) ==
    IF public_keys = <<>> THEN 0
    ELSE (G2Log(G2FromCompressed(Head(public_keys)).val)
          + SumOfG2Logs(Tail(public_keys))) % GroupOrder

\* The calls C9 is about: to_compressed_g1 on the identity, and
\* aggregate_signatures on the empty list or on signatures that sum to the
\* identity.
OnIdentity ==
    \/ call.op = "to_compressed_g1" /\ ~HasAffine(call.arg)
    \/ /\ call.op = "aggregate_signatures"
       /\ AllDecodeG1(call.arg)
       /\ SumOfG1Logs(call.arg) = 0

FirstMalformed(list, Decodes(_)) ==
    CHOOSE i \in 1 .. Len(list) :
        ~Decodes(list[i]) /\ \A j \in 1 .. (i - 1) : Decodes(list[j])

C11_ReturnsWithinRange ==
    /\ [](/\ loop.attempts <= CtrEnd + 1
          /\ loop.at /= "idle" => loop.v[Len(loop.v)] \in 0 .. CtrEnd
          /\ loop.at = "returned" =>
                 call.ret.ok \/ call.ret = Fail(HashToPointError, G1Zero))
    /\ [][loop.at /= "idle" => loop'.c >= loop.c]_vars
    /\ (loop.at = "find_map") ~> (loop.at = "returned")

\* A call on a message for which no counter decodes returned the error
\* after the whole range.
C11_Witness ==
    /\ loop.at = "returned"
    /\ call.ret = Fail(HashToPointError, G1Zero)
    /\ loop.attempts = CtrEnd
    /\ \A ctr \in 0 .. CtrEnd : ~Attempt(loop.v, Len(loop.v), ctr).ok

\* The hash of the buffer with trailing byte ctr, decoded with the tag 2.
DecodedAt(v, ctr) == G1FromCompressed(<<2>> \o calculate_sha256([v EXCEPT ![Len(v)] = ctr]))

\* C12: a call of hash_to_try_and_increment that succeeds returns the point
\* decoded with the even-y tag 2 from the hash of the buffer with the
\* smallest counter whose hash decodes; the counters are tried in
\* increasing order from 0, one for each hash, and between attempts only
\* the trailing byte of the buffer changes.
C12_FirstDecodingCounter ==
    /\ []((loop.at = "returned" /\ call.ret.ok) =>
              /\ DecodedAt(loop.v, loop.v[Len(loop.v)]).ok
              /\ call.ret.val = DecodedAt(loop.v, loop.v[Len(loop.v)]).val
              /\ \A ctr \in 0 .. (loop.v[Len(loop.v)] - 1) : ~DecodedAt(loop.v, ctr).ok
              /\ call.ret = hash_to_try_and_increment(call.arg.public_key, call.arg.msg))
    /\ [](loop.attempts > 0 => loop.v[Len(loop.v)] = loop.attempts - 1)
    /\ [][loop.at /= "idle" =>
              /\ Len(loop'.v) = Len(loop.v)
              /\ \A i \in 1 .. (Len(loop.v) - 1) : loop'.v[i] = loop.v[i]]_vars

\* A call returned the point of counter 2 although counter 7 decodes too.
C12_Witness ==
    /\ loop.at = "returned"
    /\ call.ret.ok
    /\ loop.v[Len(loop.v)] = 2
    /\ DecodedAt(loop.v, 7).ok

=============================================================================
